---- MODULE Spec2Model ----
(***************************************************************************)
(* A model of the uff configuration compiler: parse -> build (resolve) ->  *)
(* flatten -> cache, and of the driver loop that walks the compiled       *)
(* structure (src/src/parser.rs, src/src/config.rs, src/src/main.rs).     *)
(*                                                                         *)
(* Representation.  A Rust String / byte buffer / path is a sequence of    *)
(* tokens; a token is a TLA+ string standing for one byte (or for a run of *)
(* bytes that holds no newline, no '.', no '/' and no '~', such as         *)
(* "--cache").  Vec<T> is a sequence; Vec indexes are 0-based in the      *)
(* model as in the code, so items[i] of the code is items[i + 1] here.     *)
(* Result<T> / Option<T> is a record [ok |-> BOOLEAN, val |-> T].          *)
(***************************************************************************)
EXTENDS Integers, Sequences, FiniteSets, TLC

VARIABLES
    text,       \* the source file: the KdlDocument its bytes denote
    preset,     \* the source file's stem (preset_name)
    sha,        \* first 8 bytes of SHA-256, as a function of the texts in play
    cacheDir,   \* does the cache directory exist
    cacheFile,  \* the preset's cache file: [ok |-> FALSE] when missing, else its bytes
    cacheSrc,   \* the text whose compile produced the bytes now in cacheFile
    files,      \* the synthetic selector configs on disk: path -> lines
    call,       \* the last get_computed_config call: inputs, outcome, return value
    prev,       \* the call before it
    drv         \* the driver loop of main: current item and the indexes selected

vars == <<text, preset, sha, cacheDir, cacheFile, cacheSrc, files, call, prev, drv>>

----------------------------------------------------------------------------
(* Bytes and strings *)

\* The newline byte written by writeln!.
NL == "\n"
\* The NUL byte and the unit separator of the icon marker "\0icon\x1f".
NUL == "<00>"
US == "<1f>"

None == [ok |-> FALSE]
Some(v) == [ok |-> TRUE, val |-> v]
Err == [ok |-> FALSE]
Ok(v) == [ok |-> TRUE, val |-> v]

RECURSIVE SeqSum(_)
SeqSum(s) == IF s = <<>> THEN 0 ELSE Head(s) + SeqSum(Tail(s))

RECURSIVE Flat(_)
\* Concatenation of a sequence of sequences.
Flat(ss) == IF ss = <<>> THEN <<>> ELSE Head(ss) \o Flat(Tail(ss))

\* Number of newline bytes in a buffer: the number of newline-terminated lines.
Lines(buf) == Cardinality({i \in 1..Len(buf) : buf[i] = NL})

\* The user's home directory, as text.
home == <<"/home/u">>

\* str.replace('~', &home())
ReplaceTilde(s) == Flat([i \in 1..Len(s) |-> IF s[i] = "~" THEN home ELSE <<s[i]>>])

RECURSIVE Digits(_)
\* Decimal digits of a usize, as format!("{id}") prints them.
Digits(n) ==
    IF n < 10 THEN <<ToString(n)>> ELSE Digits(n \div 10) \o <<ToString(n % 10)>>

----------------------------------------------------------------------------
(* KDL documents (the kdl crate's output, the parser's input) *)

\* An unnamed string argument, a named string parameter, a non-string argument.
StrArg(s) == [name |-> None, isString |-> TRUE, value |-> s]
Param(k, s) == [name |-> Some(k), isString |-> TRUE, value |-> s]
IntArg == [name |-> None, isString |-> FALSE, value |-> <<>>]

Leaf(n, entries) ==
    [name |-> n, entries |-> entries, hasChildren |-> FALSE, children |-> <<>>]
Block(n, entries, kids) ==
    [name |-> n, entries |-> entries, hasChildren |-> TRUE, children |-> kids]

----------------------------------------------------------------------------
(* src/src/parser.rs *)

no_parameters(node) ==
    IF \E i \in 1..Len(node.entries) : node.entries[i].name.ok THEN Err ELSE Ok(TRUE)

no_arguments(node) ==
    IF node.entries # <<>> THEN Err ELSE Ok(TRUE)

no_children(node) ==
    IF node.hasChildren THEN Err ELSE Ok(TRUE)

one_argument(node) ==
    IF Len(node.entries) # 1 THEN Err
    ELSE IF ~node.entries[1].isString THEN Err
    ELSE Ok(node.entries[1].value)

many_arguments(node) ==
    IF node.entries = <<>> THEN Err
    ELSE IF \E i \in 1..Len(node.entries) : ~node.entries[i].isString THEN Err
    ELSE Ok([i \in 1..Len(node.entries) |-> node.entries[i].value])

children(node) ==
    IF node.hasChildren THEN Ok(node.children) ELSE Err

RECURSIVE fuzzel_config_pairs(_, _, _)
\* The loop over the children of a fuzzel-config node.
fuzzel_config_pairs(kvs, i, acc) ==
    IF i > Len(kvs) THEN Ok(acc)
    ELSE LET value == one_argument(kvs[i])
         IN  IF ~value.ok THEN Err
             ELSE IF ~no_parameters(kvs[i]).ok THEN Err
             ELSE fuzzel_config_pairs(kvs, i + 1, Append(acc, <<<<kvs[i].name>>, value.val>>))

RECURSIVE item_icon(_, _, _)
\* The loop of parse_item_from_nodes over the item's children: the last icon wins.
item_icon(nodes, i, icon) ==
    IF i > Len(nodes) THEN Ok(icon)
    ELSE IF nodes[i].name # "icon" THEN item_icon(nodes, i + 1, icon)
    ELSE LET value == one_argument(nodes[i])
         IN  IF ~value.ok THEN Err
             ELSE IF ~no_parameters(nodes[i]).ok THEN Err
             ELSE IF ~no_children(nodes[i]).ok THEN Err
             ELSE item_icon(nodes, i + 1, Some(value.val))

RECURSIVE program_command(_, _, _)
\* The loop of parse_program_from_nodes: the last command wins.
program_command(nodes, i, command) ==
    IF i > Len(nodes) THEN Ok(command)
    ELSE IF nodes[i].name = "command" THEN
        LET args == many_arguments(nodes[i])
        IN  IF ~args.ok THEN Err
            ELSE IF ~no_parameters(nodes[i]).ok THEN Err
            ELSE IF ~no_children(nodes[i]).ok THEN Err
            ELSE program_command(nodes, i + 1, args.val)
    ELSE IF nodes[i].name = "icon" THEN program_command(nodes, i + 1, command)
    ELSE Err

parse_program_from_nodes(doc) ==
    LET command == program_command(doc, 1, <<>>)
    IN  IF ~command.ok THEN Err
        ELSE IF command.val = <<>> THEN Err
        ELSE Ok([command |-> command.val])

RECURSIVE parse_menu_from_nodes(_)
RECURSIVE parse_item_from_nodes(_, _, _)
RECURSIVE menu_nodes(_, _, _)

\* The loop of parse_menu_from_nodes over the nodes of one level.
menu_nodes(nodes, i, acc) ==
    IF i > Len(nodes) THEN Ok(acc)
    ELSE LET node == nodes[i] IN
    CASE node.name = "fuzzel-args" ->
            LET args == many_arguments(node)
            IN  IF ~args.ok THEN Err
                ELSE IF ~no_parameters(node).ok THEN Err
                ELSE IF ~no_children(node).ok THEN Err
                ELSE menu_nodes(nodes, i + 1, [acc EXCEPT !.fuzzel_args = args.val])
      [] node.name = "fuzzel-config" ->
            LET kids == children(node)
            IN  IF ~kids.ok THEN Err
                ELSE LET pairs == fuzzel_config_pairs(kids.val, 1, <<>>)
                     IN  IF ~pairs.ok THEN Err
                         ELSE IF ~no_arguments(node).ok THEN Err
                         ELSE menu_nodes(nodes, i + 1,
                                         [acc EXCEPT !.fuzzel_config = pairs.val])
      [] node.name = "icon-dir" ->
            LET path_str == one_argument(node)
            IN  IF ~path_str.ok THEN Err
                ELSE IF ~no_parameters(node).ok THEN Err
                ELSE IF ~no_children(node).ok THEN Err
                ELSE menu_nodes(nodes, i + 1,
                        [acc EXCEPT !.icon_dirs = Append(@, ReplaceTilde(path_str.val))])
      [] node.name \in {"menu", "program"} ->
            LET name == one_argument(node)
                kids == children(node)
            IN  IF ~name.ok THEN Err
                ELSE IF ~kids.ok THEN Err
                ELSE LET item == parse_item_from_nodes(node.name, name.val, kids.val)
                     IN  IF ~item.ok THEN Err
                         ELSE IF ~no_parameters(node).ok THEN Err
                         ELSE menu_nodes(nodes, i + 1,
                                         [acc EXCEPT !.items = Append(@, item.val)])
      [] node.name = "icon" -> menu_nodes(nodes, i + 1, acc)
      [] OTHER -> Err

parse_menu_from_nodes(doc) ==
    menu_nodes(doc, 1,
        [fuzzel_args |-> <<>>, fuzzel_config |-> <<>>, icon_dirs |-> <<>>, items |-> <<>>])

parse_item_from_nodes(kind, name, doc) ==
    LET icon == item_icon(doc, 1, None)
    IN  IF ~icon.ok THEN Err
        ELSE LET contents ==
                    IF kind = "menu"
                    THEN LET m == parse_menu_from_nodes(doc)
                         IN  IF m.ok THEN Ok([kind |-> "Menu", menu |-> m.val]) ELSE Err
                    ELSE LET p == parse_program_from_nodes(doc)
                         IN  IF p.ok THEN Ok([kind |-> "Program", program |-> p.val])
                             ELSE Err
             IN  IF ~contents.ok THEN Err
                 ELSE Ok([name |-> name, icon |-> icon.val, contents |-> contents.val])

\* The text is held as the KdlDocument that src.parse::<KdlDocument>() yields.
parse_config(src) == parse_menu_from_nodes(src)

----------------------------------------------------------------------------
(* src/src/config.rs: paths *)

\* Index of the last "." of a file name, 0 when it has none.
LastDot(file) ==
    LET dots == {i \in 1..Len(file) : file[i] = "."}
    IN  IF dots = {} THEN 0 ELSE CHOOSE i \in dots : \A j \in dots : j <= i

\* PathBuf::set_extension on the final component: the text after the last '.' of
\* the file name is the extension it replaces (a leading '.' starts no extension).
set_extension(file, extension) ==
    LET stem == IF LastDot(file) > 1 THEN SubSeq(file, 1, LastDot(file) - 1) ELSE file
    IN  stem \o <<".">> \o extension

\* PathBuf::push of a relative file name.
push(dir, file) == dir \o <<"/">> \o file

get_cache_dir == <<"$XDG_CACHE_HOME", "/", "uff">>

default_config_dir == <<"$XDG_CONFIG_HOME">>

make_cache_path(preset_name) ==
    push(get_cache_dir, set_extension(preset_name, <<"cache">>))

make_fuzzel_config_path(id, preset_name) ==
    push(get_cache_dir, set_extension(preset_name \o Digits(id), <<"fuzzel", ".", "ini">>))

make_fuzzel_cache_path(id, preset_name) ==
    push(get_cache_dir, set_extension(preset_name \o Digits(id), <<"fuzzel", ".", "cache">>))

default_fuzzel_config_path ==
    push(push(default_config_dir, <<"fuzzel">>), <<"fuzzel", ".", "ini">>)

----------------------------------------------------------------------------
(* src/src/config.rs: the icon search *)

\* The directories InheritanceFrame::default() takes from the environment:
\* XDG_DATA_DIRS, then XDG_DATA_HOME.
DefaultIconDirs == << <<"/usr/share/">>, home \o <<"/.local/share/">> >>

InheritanceFrame_default == [icon_dirs |-> DefaultIconDirs, fuzzel_config_id |-> None]

\* The icon files on disk: what WalkDir::new(dir) yields, in its order.
WalkDir(dir) ==
    CASE dir = <<"/usr/share/">> ->
            << [stem |-> <<"app">>, ext |-> "png",
                path |-> <<"/usr/share/", "icons", "/", "app", ".", "png">>] >>
      [] dir = <<"/icons">> ->
            << [stem |-> <<"app">>, ext |-> "txt",
                path |-> <<"/icons", "/", "app", ".", "txt">>],
               [stem |-> <<"app">>, ext |-> "svg",
                path |-> <<"/icons", "/", "app", ".", "svg">>] >>
      [] dir = <<"/p">> ->
            << [stem |-> <<"app">>, ext |-> "png",
                path |-> <<"/p", "/", "app", ".", "png">>] >>
      [] dir = <<"/q">> ->
            << [stem |-> <<"app">>, ext |-> "svg",
                path |-> <<"/q", "/", "sub", "/", "app", ".", "svg">>] >>
      [] dir = <<"/e">> ->
            << [stem |-> <<"other">>, ext |-> "png",
                path |-> <<"/e", "/", "other", ".", "png">>] >>
      [] OTHER -> <<>>

RECURSIVE search_dirs(_, _, _)
search_dirs(name, dirs, i) ==
    IF i > Len(dirs) THEN None
    ELSE LET entries == WalkDir(dirs[i])
             hits == {j \in 1..Len(entries) :
                        entries[j].stem = name /\ entries[j].ext \in {"png", "svg"}}
         IN  IF hits # {}
             THEN Some(entries[CHOOSE j \in hits : \A k \in hits : j <= k].path)
             ELSE search_dirs(name, dirs, i + 1)

search_for_icon(name, dirs) ==
    IF \E i \in 1..Len(name) : name[i] = "/" THEN None
    ELSE search_dirs(name, dirs, 1)

----------------------------------------------------------------------------
(* src/src/config.rs: the build phase *)

\* A plausible slip: the counter incremented before it is read.
next_id_preincrement(counter) == [id |-> counter + 1, counter |-> counter + 1]

\* IdGenerator::next_id: the id handed out and the counter after it.
next_id(counter) == [id |-> counter, counter |-> counter + 1]

\* A plausible slip: next() for next_back(), the outermost overriding ancestor.
first_config(inheritance_stack) ==
    LET set == {i \in 1..Len(inheritance_stack) : inheritance_stack[i].fuzzel_config_id.ok}
    IN  IF set = {} THEN None
        ELSE inheritance_stack[CHOOSE i \in set : \A j \in set : i <= j].fuzzel_config_id

\* inheritance_stack.iter().filter_map(|frame| frame.fuzzel_config_id).next_back()
last_config(inheritance_stack) ==
    LET set == {i \in 1..Len(inheritance_stack) : inheritance_stack[i].fuzzel_config_id.ok}
    IN  IF set = {} THEN None
        ELSE inheritance_stack[CHOOSE i \in set : \A j \in set : j <= i].fuzzel_config_id

\* The bytes create_fuzzel_config writes: the include line, then a line per pair.
fuzzel_config_bytes(pairs, inherit_id, preset_name) ==
    LET inherit_path == IF inherit_id.ok
                        THEN make_fuzzel_config_path(inherit_id.val, preset_name)
                        ELSE default_fuzzel_config_path
    IN  <<"include=">> \o inherit_path \o <<NL>>
        \o Flat([i \in 1..Len(pairs) |-> pairs[i][1] \o <<"=">> \o pairs[i][2] \o <<NL>>])

\* create_fuzzel_config: the path it returns and the file it writes there.
create_fuzzel_config(pairs, id, inherit_id, preset_name) ==
    [id |-> id,
     path |-> make_fuzzel_config_path(id, preset_name),
     bytes |-> fuzzel_config_bytes(pairs, inherit_id, preset_name)]

\* A plausible slip: the --cache pair pushed before the --config pair.
menu_args_cache_first(menu, inheritance_stack, id, preset_name) ==
    menu.fuzzel_args
    \o << <<"--cache">>, make_fuzzel_cache_path(id, preset_name) >>
    \o (IF menu.fuzzel_config = <<>>
        THEN IF last_config(inheritance_stack).ok
             THEN << <<"--config">>,
                     make_fuzzel_config_path(last_config(inheritance_stack).val, preset_name) >>
             ELSE <<>>
        ELSE << <<"--config">>,
                create_fuzzel_config(menu.fuzzel_config, id,
                                     last_config(inheritance_stack), preset_name).path >>)

\* The selector arguments of one menu (before the icon work).
menu_args(menu, inheritance_stack, id, preset_name) ==
    menu.fuzzel_args
    \o (IF menu.fuzzel_config = <<>>
        THEN IF last_config(inheritance_stack).ok
             THEN << <<"--config">>,
                     make_fuzzel_config_path(last_config(inheritance_stack).val, preset_name) >>
             ELSE <<>>
        ELSE << <<"--config">>,
                create_fuzzel_config(menu.fuzzel_config, id,
                                     last_config(inheritance_stack), preset_name).path >>)
    \o << <<"--cache">>, make_fuzzel_cache_path(id, preset_name) >>

Reverse(s) == [i \in 1..Len(s) |-> s[Len(s) + 1 - i]]

\* A plausible slip: the frames chained without .rev(), the root's first.
menu_icon_dirs_root_first(menu, inheritance_stack) ==
    menu.icon_dirs
    \o Flat([i \in 1..Len(inheritance_stack) |-> inheritance_stack[i].icon_dirs])

\* menu.icon_dirs, then every frame's icon_dirs from the nearest frame to the root's.
menu_icon_dirs(menu, inheritance_stack) ==
    menu.icon_dirs
    \o Flat([i \in 1..Len(inheritance_stack) |->
                inheritance_stack[Len(inheritance_stack) + 1 - i].icon_dirs])

\* A plausible slip: push_back for push_front, the submenu's directories last.
item_icon_dirs_push_back(item, icon_dirs) ==
    IF item.contents.kind = "Menu"
    THEN icon_dirs \o item.contents.menu.icon_dirs
    ELSE icon_dirs

\* The directories searched for one item's icon: a submenu's own icon_dirs are
\* pushed to the front one by one.
item_icon_dirs(item, icon_dirs) ==
    IF item.contents.kind = "Menu"
    THEN Reverse(item.contents.menu.icon_dirs) \o icon_dirs
    ELSE icon_dirs

\* The line of one item in the selector's input.
item_line(item, icon_dirs) ==
    item.name
    \o (IF item.icon.ok
        THEN LET found == search_for_icon(item.icon.val, item_icon_dirs(item, icon_dirs))
             IN  <<NUL, "icon", US>>
                 \o (IF found.ok THEN found.val ELSE ReplaceTilde(item.icon.val))
        ELSE <<>>)
    \o <<NL>>

menu_input(menu, inheritance_stack) ==
    Flat([i \in 1..Len(menu.items) |->
            item_line(menu.items[i], menu_icon_dirs(menu, inheritance_stack))])

child_frame(menu, id) ==
    [icon_dirs |-> menu.icon_dirs,
     fuzzel_config_id |-> IF menu.fuzzel_config = <<>> THEN None ELSE Some(id)]

\* A plausible slip: the result of File::create not unwrapped, the build goes on.
File_create_unchecked(creatable) == TRUE

\* File::create(&config_path): does it succeed, with creatable the number of
\* creations the file system still allows.  The code unwraps the result.
File_create(creatable) == creatable > 0

RECURSIVE build_resolved_menu(_, _, _, _)
RECURSIVE build_items(_, _, _, _, _, _)

\* The loop over menu.items that builds resolved_items.  st is what the build
\* threads through the recursion: the IdGenerator's counter, the files written so
\* far, how many File::create calls will still succeed, and whether one panicked.
build_items(items, i, child_stack, st, preset_name, acc) ==
    IF i > Len(items) \/ st.panicked THEN [items |-> acc, st |-> st]
    ELSE IF items[i].contents.kind = "Menu"
    THEN LET child == build_resolved_menu(items[i].contents.menu, child_stack, st,
                                          preset_name)
         IN  build_items(items, i + 1, child_stack, child.st, preset_name,
                         Append(acc, [kind |-> "Menu", menu |-> child.menu]))
    ELSE build_items(items, i + 1, child_stack, st, preset_name,
                     Append(acc, [kind |-> "Program",
                                  program |-> [command |-> items[i].contents.program.command]]))

\* The resolved menu carries its id: the code keeps it only inside the --cache
\* argument, the model keeps it beside it.
build_resolved_menu(menu, inheritance_stack, st, preset_name) ==
    LET n == next_id(st.counter)
        id == n.id
        creates == menu.fuzzel_config # <<>>
        panics == creates /\ ~File_create(st.creatable)
        st1 == [counter |-> n.counter,
                writes |-> IF creates /\ ~panics
                           THEN Append(st.writes,
                                       create_fuzzel_config(menu.fuzzel_config, id,
                                            last_config(inheritance_stack), preset_name))
                           ELSE st.writes,
                creatable |-> IF creates /\ ~panics THEN st.creatable - 1 ELSE st.creatable,
                panicked |-> panics]
        kids == build_items(menu.items, 1,
                            Append(inheritance_stack, child_frame(menu, id)),
                            st1, preset_name, <<>>)
    IN  [menu |-> [id |-> id,
                   args |-> menu_args(menu, inheritance_stack, id, preset_name),
                   input |-> menu_input(menu, inheritance_stack),
                   items |-> kids.items],
         st |-> kids.st]

----------------------------------------------------------------------------
(* src/src/config.rs: the flatten phase *)

\* What the first pass pushes for one direct child.
first_pass_item(resolved_item) ==
    IF resolved_item.kind = "Menu"
    THEN [kind |-> "Menu",
          menu |-> [args |-> resolved_item.menu.args,
                    input |-> resolved_item.menu.input,
                    items_offset |-> 0]]
    ELSE [kind |-> "Program", program |-> resolved_item.program]

\* A plausible slip: the index of the last item for the length.
child_offset_last(items) == Len(items) - 1

\* let child_offset = items.len();
child_offset(items) == Len(items)

\* A plausible slip: the placeholder's offset never updated.
set_items_offset_skipped(items, current_index, offset) == items

\* if let ComputedItem::Menu(computed_menu) = &mut items[current_index]
\*     { computed_menu.items_offset = child_offset; }
set_items_offset(items, current_index, offset) ==
    IF items[current_index + 1].kind = "Menu"
    THEN [items EXCEPT ![current_index + 1].menu.items_offset = offset]
    ELSE items

RECURSIVE flatten_resolved_menu(_, _)
RECURSIVE second_pass(_, _, _, _)

\* The second loop of flatten_resolved_menu, at child i (1-based) of resolved_items
\* with current_index the child's index in items.
second_pass(resolved_items, i, current_index, items) ==
    IF i > Len(resolved_items) THEN items
    ELSE IF resolved_items[i].kind = "Menu"
    THEN second_pass(resolved_items, i + 1, current_index + 1,
            flatten_resolved_menu(resolved_items[i].menu,
                set_items_offset(items, current_index, child_offset(items))).items)
    ELSE second_pass(resolved_items, i + 1, current_index + 1, items)

\* A plausible slip: items_offset read after the first pass has pushed the children.
flatten_resolved_menu_late_offset(resolved_menu, items) ==
    LET items_offset == Len(items)
        pushed == items \o [i \in 1..Len(resolved_menu.items) |->
                                first_pass_item(resolved_menu.items[i])]
    IN  [menu |-> [args |-> resolved_menu.args,
                   input |-> resolved_menu.input,
                   items_offset |-> Len(pushed)],
         items |-> second_pass(resolved_menu.items, 1, items_offset, pushed)]

flatten_resolved_menu(resolved_menu, items) ==
    LET items_offset == Len(items)
        pushed == items \o [i \in 1..Len(resolved_menu.items) |->
                                first_pass_item(resolved_menu.items[i])]
    IN  [menu |-> [args |-> resolved_menu.args,
                   input |-> resolved_menu.input,
                   items_offset |-> items_offset],
         items |-> second_pass(resolved_menu.items, 1, items_offset, pushed)]

----------------------------------------------------------------------------
(* The cache file's encoding (bitcode, through the Encode/Decode derives of      *)
(* ComputedConfig, ComputedItem, ComputedMenu and ComputedProgram).  The file is *)
(* a sequence of words: [n |-> k] a number (a length, a variant tag, an offset,  *)
(* the hash), [b |-> t] one byte of a string or buffer.  Fields are written in   *)
(* declaration order, a Vec or String as its length and then its elements.      *)

Num(k) == [n |-> k]
IsNum(w) == DOMAIN w = {"n"}
IsByte(w) == DOMAIN w = {"b"}

encode_bytes(str) == <<Num(Len(str))>> \o [i \in 1..Len(str) |-> [b |-> str[i]]]

encode_strings(strs) ==
    <<Num(Len(strs))>> \o Flat([i \in 1..Len(strs) |-> encode_bytes(strs[i])])

\* A plausible slip: items_offset left out of what is persisted (read back as 0).
encode_menu_skip_offset(m) ==
    encode_strings(m.args) \o encode_bytes(m.input) \o <<Num(0)>>

encode_menu(m) ==
    encode_strings(m.args) \o encode_bytes(m.input) \o <<Num(m.items_offset)>>

encode_item(item) ==
    IF item.kind = "Menu"
    THEN <<Num(0)>> \o encode_menu(item.menu)
    ELSE <<Num(1)>> \o encode_strings(item.program.command)

\* bitcode::encode(computed_config)
encode(c) ==
    <<Num(c.hash)>> \o encode_menu(c.initial_menu)
    \o <<Num(Len(c.items))>> \o Flat([i \in 1..Len(c.items) |-> encode_item(c.items[i])])

\* A decoder step yields [ok, val, pos]: the value read and the next position.
Fail == [ok |-> FALSE, val |-> <<>>, pos |-> 0]
Got(v, pos) == [ok |-> TRUE, val |-> v, pos |-> pos]

\* The next step K on what step r read, unless r failed.
Then(r, K(_)) == IF r.ok THEN K(r) ELSE Fail

decode_num(ws, pos) ==
    IF pos <= Len(ws) /\ IsNum(ws[pos]) THEN Got(ws[pos].n, pos + 1) ELSE Fail

take_bytes(ws, pos, len) ==
    IF pos + len - 1 > Len(ws) THEN Fail
    ELSE IF \E i \in pos..(pos + len - 1) : ~IsByte(ws[i]) THEN Fail
    ELSE Got([i \in 1..len |-> ws[pos + i - 1].b], pos + len)

decode_bytes(ws, pos) ==
    Then(decode_num(ws, pos), LAMBDA len : take_bytes(ws, len.pos, len.val))

RECURSIVE decode_n(_, _, _, _, _)
\* count elements read one after the other with Step(ws, pos).
decode_n(Step(_, _), ws, pos, count, acc) ==
    IF count = 0 THEN Got(acc, pos)
    ELSE Then(Step(ws, pos),
              LAMBDA x : decode_n(Step, ws, x.pos, count - 1, Append(acc, x.val)))

decode_strings(ws, pos) ==
    Then(decode_num(ws, pos),
         LAMBDA len : decode_n(decode_bytes, ws, len.pos, len.val, <<>>))

decode_menu(ws, pos) ==
    Then(decode_strings(ws, pos), LAMBDA args :
    Then(decode_bytes(ws, args.pos), LAMBDA input :
    Then(decode_num(ws, input.pos), LAMBDA items_offset :
        Got([args |-> args.val, input |-> input.val, items_offset |-> items_offset.val],
            items_offset.pos))))

decode_variant(ws, tag) ==
    IF tag.val = 0
    THEN Then(decode_menu(ws, tag.pos),
              LAMBDA m : Got([kind |-> "Menu", menu |-> m.val], m.pos))
    ELSE IF tag.val = 1
    THEN Then(decode_strings(ws, tag.pos),
              LAMBDA c : Got([kind |-> "Program", program |-> [command |-> c.val]], c.pos))
    ELSE Fail

decode_item(ws, pos) ==
    Then(decode_num(ws, pos), LAMBDA tag : decode_variant(ws, tag))

decode_config(ws) ==
    Then(decode_num(ws, 1), LAMBDA hash :
    Then(decode_menu(ws, hash.pos), LAMBDA initial_menu :
    Then(decode_num(ws, initial_menu.pos), LAMBDA len :
    Then(decode_n(decode_item, ws, len.pos, len.val, <<>>), LAMBDA items :
        Got([hash |-> hash.val, initial_menu |-> initial_menu.val, items |-> items.val],
            items.pos)))))

\* Every byte must be used.
all_used(ws, r) == IF r.ok /\ r.pos = Len(ws) + 1 THEN Ok(r.val) ELSE Err

\* bitcode::decode(&bytes)
decode(ws) == all_used(ws, decode_config(ws))

----------------------------------------------------------------------------
(* src/src/config.rs: the cache and the compile *)

\* Sha256::digest(&config_string)[..8]
actual_hash(config_string) == sha[config_string]

\* read_cached_config on the cache file: a missing file and bytes that do not
\* decode both give None.
read_cached_config(file) ==
    IF ~file.ok THEN None ELSE decode(file.val)

\* cached_config.hash == actual_hash[..8]
hash_matches(cached_config, hash) == cached_config.hash = hash

\* The build's threaded state at its start; creatable is the number of File::create
\* calls that will succeed.
build_start(creatable) ==
    [counter |-> 0, writes |-> <<>>, creatable |-> creatable, panicked |-> FALSE]

\* The ComputedConfig of a finished build.
computed(menu, built, flat, hash) ==
    [menu |-> menu,
     resolved |-> built.menu,
     writes |-> built.st.writes,
     panicked |-> built.st.panicked,
     config |-> [hash |-> hash, initial_menu |-> flat.menu, items |-> flat.items]]

\* A build that panicked: there is no resolved tree to flatten.
aborted(menu, built) ==
    [menu |-> menu, resolved |-> built.menu, writes |-> built.st.writes, panicked |-> TRUE]

flatten_built(menu, built, hash) ==
    IF built.st.panicked THEN aborted(menu, built)
    ELSE computed(menu, built, flatten_resolved_menu(built.menu, <<>>), hash)

build_parsed(config, hash, preset_name, creatable) ==
    IF ~config.ok THEN Err
    ELSE Ok(flatten_built(config.val,
                build_resolved_menu(config.val, <<InheritanceFrame_default>>,
                                    build_start(creatable), preset_name),
                hash))

\* compute_config: Err on a parse error; else the build's outcome (it may have
\* panicked) and the flattened config.
compute_config(config_string, hash, preset_name, creatable) ==
    build_parsed(parse_config(config_string), hash, preset_name, creatable)

----------------------------------------------------------------------------
(* Source texts *)

\* Bounds of the generated documents: items in all, and menus nested below the root.
MaxNodes == 3
MaxDepth == 2
\* Largest number of File::create calls the environment may let succeed.
MaxCreates == 3
\* Number of values the 8-byte hash takes on the texts in play.
HashValues == 2

IconNodes(icon) == IF icon.ok THEN <<Leaf("icon", <<StrArg(icon.val)>>)>> ELSE <<>>

ConfigNodes(pairs) ==
    IF pairs = <<>> THEN <<>>
    ELSE <<Block("fuzzel-config", <<>>,
                 [i \in 1..Len(pairs) |-> Leaf(pairs[i][1], <<StrArg(pairs[i][2])>>)])>>

ProgramNode(name, icon, command) ==
    Block("program", <<StrArg(name)>>,
          IconNodes(icon) \o <<Leaf("command", [i \in 1..Len(command) |-> StrArg(command[i])])>>)

MenuNode(name, icon, pairs, body) ==
    Block("menu", <<StrArg(name)>>, IconNodes(icon) \o ConfigNodes(pairs) \o body)

RECURSIVE Forests(_, _, _)
\* The item lists of at most n items in all, with menus nested at most d deep,
\* decorated from the sets of P.
Forests(d, n, P) ==
    IF n = 0 THEN {<<>>}
    ELSE {<<>>} \cup UNION {
        LET programs == {ProgramNode(nm, ic, cmd) :
                            nm \in P.names, ic \in P.icons, cmd \in P.commands}
            menus == IF d = 0 THEN {}
                     ELSE {MenuNode(nm, ic, cf, body) :
                            nm \in P.names, ic \in P.icons, cf \in P.configs,
                            body \in Forests(d - 1, k - 1, P)}
        IN  {<<x>> \o rest : x \in programs \cup menus, rest \in Forests(d, n - k, P)}
        : k \in 1..n}

Docs(d, n, P) == {ConfigNodes(cf) \o body : cf \in P.configs, body \in Forests(d, n, P)}

Width == << <<"width">>, <<"1", "2">> >>
Lines8 == << <<"lines">>, <<"8">> >>

\* Plain names, commands that tell programs apart, menus with and without overrides.
FlatParams ==
    [names |-> {<<"A">>},
     icons |-> {None},
     commands |-> {<<<<"c1">>>>, <<<<"c2">>, <<"x">>>>},
     configs |-> {<<>>, <<Width, Lines8>>}]

FlatDocs == Docs(MaxDepth, MaxNodes, FlatParams)

\* program "Open" { command "xdg-open" "file.txt" }
TextOpen ==
    <<ProgramNode(<<"Open">>, None, << <<"xdg-open">>, <<"file", ".", "txt">> >>)>>

\* Bounds of the documents whose names and icon references may hold a newline.
MaxNameNodes == 2
MaxNameDepth == 1

NameParams ==
    [names |-> {<<"A">>, <<"A", NL, "B">>},
     icons |-> {None, Some(<<"app">>), Some(<<"i", NL, "j">>)},
     commands |-> {<<<<"c1">>>>},
     configs |-> {<<>>}]

NameDocs == Docs(MaxNameDepth, MaxNameNodes, NameParams)

\* The texts the cache is exercised on: one program; overrides at the root and in
\* a submenu (two synthetic files); a program without a command (a grammar
\* error); other overrides at the root (one synthetic file, with other content).
TextA == <<ProgramNode(<<"A">>, None, <<<<"c1">>>>)>>
TextB ==
    ConfigNodes(<<Width>>)
    \o <<MenuNode(<<"A">>, None, <<Lines8>>, <<ProgramNode(<<"A">>, None, <<<<"c2">>, <<"x">>>>)>>)>>
TextBad == <<Block("program", <<StrArg(<<"A">>)>>, <<>>)>>
TextC == ConfigNodes(<<Lines8>>) \o <<ProgramNode(<<"A">>, None, <<<<"c1">>>>)>>
CacheTexts == {TextA, TextB, TextBad}
\* Two sources whose root menus carry different overrides: both write <preset>0.fuzzel.ini.
FileTexts == {TextB, TextC}

\* Preset names: the stem of the source file, which may hold a '.' (my.menu.kdl).
Presets == {<<"default">>, <<"my", ".", "menu">>}

----------------------------------------------------------------------------
(* The environment of one call *)

\* mkdir: create_dir_all can create the cache directory; creatable: how many
\* File::create calls succeed; write: what fs::write of the cache file does
\* ("partial": it fails after truncating the file).
Envs == [mkdir : BOOLEAN, creatable : 0..MaxCreates, write : {"ok", "fail", "partial"}]

GoodEnv == [mkdir |-> TRUE, creatable |-> MaxCreates, write |-> "ok"]

RECURSIVE write_files(_, _, _)
\* The file system after the build's File::create calls, in order.
write_files(fs, writes, i) ==
    IF i > Len(writes) THEN fs
    ELSE write_files([p \in DOMAIN fs \cup {writes[i].path} |->
                        IF p = writes[i].path THEN writes[i].bytes ELSE fs[p]],
                     writes, i + 1)

NoItem == [kind |-> "None"]
\* A call: the text it read, what it found in the cache ("missing", "undecodable",
\* "stale", "hit"), whether the source differed from the one behind the cache file,
\* whether the cache directory was there or could be made, what the write of the
\* cache file did, how the call ended ("ok", "err", "panic"), what the compile
\* produced and what the call returned.
NoCall ==
    [text |-> <<>>, outcome |-> "none", stale |-> FALSE, dir |-> TRUE, write |-> "none",
     creatable |-> 0, result |-> "none", compiled |-> Err, ret |-> Err, wrote |-> FALSE]

\* The call before the last one, when it wrote the cache file.
NoPrev == [wrote |-> FALSE, text |-> <<>>, ret |-> Err]

\* main, once get_computed_config has returned: the loop starts at initial_menu,
\* or the process has ended.
driver_start(ret) ==
    IF ret.ok
    THEN [status |-> "menu", cur |-> [kind |-> "Menu", menu |-> ret.val.initial_menu],
          sel |-> <<>>]
    ELSE [status |-> "exit", cur |-> NoItem, sel |-> <<>>]

----------------------------------------------------------------------------
(* Actions *)

\* The cache file after fs::write(path, bytes).
written(file, dir, write, bytes) ==
    IF ~dir \/ write = "fail" THEN file
    ELSE IF write = "partial" THEN Some(<<>>)
    ELSE Some(bytes)

\* A plausible slip: the directory and write errors handed to the caller.
cache_config_fallible(file, dir, write, computed_config) ==
    [file |-> written(file, dir, write, encode(computed_config)),
     ok |-> dir /\ write = "ok"]

\* cache_config: the cache file after it, and what the caller sees.  It logs a
\* directory that cannot be created and a failed write, and returns ().
cache_config(file, dir, write, computed_config) ==
    [file |-> written(file, dir, write, encode(computed_config)),
     ok |-> TRUE]

\* What the match on maybe_cached_config finds.
match_cached(file, maybe_cached_config, hash) ==
    IF ~file.ok THEN "missing"
    ELSE IF ~maybe_cached_config.ok THEN "undecodable"
    ELSE IF hash_matches(maybe_cached_config.val, hash) THEN "hit"
    ELSE "stale"

cache_outcome(file, hash) == match_cached(file, read_cached_config(file), hash)

\* The call's record at its start.
call_start(outcome) ==
    [NoCall EXCEPT !.text = text, !.outcome = outcome,
                   !.stale = cacheFile.ok /\ cacheSrc.ok /\ cacheSrc.val # text]

\* return Ok(cached_config): nothing is compiled, nothing is written.
ReturnCached(this, cached_config) ==
    /\ call' = [this EXCEPT !.result = "ok", !.ret = cached_config]
    /\ UNCHANGED <<cacheDir, cacheFile, cacheSrc, files>>

\* Ok(computed_config), after cache_config.
Returned(this, c, dir, write, cached) ==
    /\ call' = [this EXCEPT
                  !.result = IF cached.ok THEN "ok" ELSE "err",
                  !.compiled = Ok([menu |-> c.val.menu,
                                   resolved |-> c.val.resolved,
                                   writes |-> c.val.writes]),
                  !.ret = IF cached.ok THEN Ok(c.val.config) ELSE Err,
                  !.dir = dir,
                  !.write = write,
                  !.wrote = dir /\ write = "ok"]
    /\ cacheFile' = cached.file

\* compute_config(..)? and cache_config(..) on what the compile c gave, with dir
\* telling whether the cache directory is there or can be made.
ReturnComputed(this, c, dir, write) ==
    IF ~c.ok
    THEN /\ call' = [this EXCEPT !.result = "err"]
         /\ UNCHANGED <<cacheDir, cacheFile, cacheSrc, files>>
    ELSE IF c.val.panicked
    THEN /\ call' = [this EXCEPT !.result = "panic", !.dir = dir]
         /\ cacheDir' = dir
         /\ files' = write_files(files, c.val.writes, 1)
         /\ UNCHANGED <<cacheFile, cacheSrc>>
    ELSE /\ Returned(this, c, dir, write, cache_config(cacheFile, dir, write, c.val.config))
         /\ cacheDir' = dir
         /\ files' = write_files(files, c.val.writes, 1)
         /\ cacheSrc' = IF ~dir \/ write = "fail" THEN cacheSrc
                        ELSE IF write = "partial" THEN None
                        ELSE Some(text)

\* A plausible slip: no return in the arm of the matching hash, the call falls
\* through to the compile.
Dispatch_falls_through(outcome, env, dir) ==
    ReturnComputed([call_start(outcome) EXCEPT
                        !.creatable = IF dir THEN env.creatable ELSE 0],
                   compute_config(text, actual_hash(text), preset,
                                  IF dir THEN env.creatable ELSE 0),
                   dir, env.write)

\* The match on maybe_cached_config and what follows it.
Dispatch(outcome, env, dir) ==
    IF outcome = "hit"
    THEN ReturnCached(call_start(outcome), read_cached_config(cacheFile))
    ELSE ReturnComputed([call_start(outcome) EXCEPT
                            !.creatable = IF dir THEN env.creatable ELSE 0],
                        compute_config(text, actual_hash(text), preset,
                                       IF dir THEN env.creatable ELSE 0),
                        dir, env.write)

\* One run of get_computed_config on the current text, in environment env, and the
\* start of main's loop on what it returns.
GetComputedConfig(env) ==
    /\ Dispatch(cache_outcome(cacheFile, actual_hash(text)), env, cacheDir \/ env.mkdir)
    /\ prev' = IF call.wrote
               THEN [wrote |-> TRUE, text |-> call.text, ret |-> call.ret]
               ELSE NoPrev
    /\ drv' = driver_start(call'.ret)
    /\ UNCHANGED <<text, preset, sha>>

\* One turn of main's loop: the selector returns index s of the current menu's
\* lines, and the loop indexes items with it.
DriverSelect ==
    /\ drv.status = "menu"
    /\ \E s \in 0..(Lines(drv.cur.menu.input) - 1) :
        LET index == s + drv.cur.menu.items_offset
            items == call.ret.val.items
        IN  drv' = IF index >= Len(items)
                   THEN [drv EXCEPT !.status = "panic", !.sel = Append(@, s)]
                   ELSE [status |-> IF items[index + 1].kind = "Menu" THEN "menu" ELSE "done",
                         cur |-> items[index + 1],
                         sel |-> Append(drv.sel, s)]
    /\ UNCHANGED <<text, preset, sha, cacheDir, cacheFile, cacheSrc, files, call, prev>>

\* The selector exits without success (the user dismisses it): main returns Err.
DriverAbort ==
    /\ drv.status = "menu"
    /\ drv' = [drv EXCEPT !.status = "abort"]
    /\ UNCHANGED <<text, preset, sha, cacheDir, cacheFile, cacheSrc, files, call, prev>>

NoFiles == [p \in {} |-> <<>>]

\* The compile pipeline on every generated text, from an empty cache directory.
Init ==
    /\ text \in FlatDocs \cup {TextOpen}
    /\ preset \in Presets
    /\ sha = [t \in {text} |-> 0]
    /\ cacheDir = FALSE
    /\ cacheFile = None
    /\ cacheSrc = None
    /\ files = NoFiles
    /\ call = NoCall
    /\ prev = NoPrev
    /\ drv = [status |-> "idle", cur |-> NoItem, sel |-> <<>>]

\* One run of the program: main calls get_computed_config and then loops.
Main ==
    /\ drv.status = "idle"
    /\ GetComputedConfig(GoodEnv)

\* The same on texts whose strings may hold a newline.
InitNames ==
    /\ text \in NameDocs
    /\ preset \in Presets
    /\ sha = [t \in {text} |-> 0]
    /\ cacheDir = FALSE
    /\ cacheFile = None
    /\ cacheSrc = None
    /\ files = NoFiles
    /\ call = NoCall
    /\ prev = NoPrev
    /\ drv = [status |-> "idle", cur |-> NoItem, sel |-> <<>>]

Next ==
    \/ Main
    \/ DriverSelect
    \/ DriverAbort

Spec == Init /\ [][Next]_vars

\* The source file is edited.
Edit ==
    /\ \E t \in DOMAIN sha \ {text} : text' = t
    /\ UNCHANGED <<preset, sha, cacheDir, cacheFile, cacheSrc, files, call, prev, drv>>

\* Runs of the program on one preset, between edits of its source, with a cache
\* directory that may be missing and writes that may fail; sha is any function.
InitCache ==
    /\ text \in CacheTexts
    /\ preset = <<"default">>
    /\ sha \in [CacheTexts -> 0..(HashValues - 1)]
    /\ cacheDir = FALSE
    /\ cacheFile = None
    /\ cacheSrc = None
    /\ files = NoFiles
    /\ call = NoCall
    /\ prev = NoPrev
    /\ drv = [status |-> "idle", cur |-> NoItem, sel |-> <<>>]

NextCache ==
    \/ Edit
    \/ \E env \in Envs : GetComputedConfig(env)

SpecCache == InitCache /\ [][NextCache]_vars

\* The same runs on two sources that share a synthetic config path.
InitFiles ==
    /\ text \in FileTexts
    /\ preset = <<"default">>
    /\ sha \in [FileTexts -> 0..(HashValues - 1)]
    /\ cacheDir = FALSE
    /\ cacheFile = None
    /\ cacheSrc = None
    /\ files = NoFiles
    /\ call = NoCall
    /\ prev = NoPrev
    /\ drv = [status |-> "idle", cur |-> NoItem, sel |-> <<>>]

SpecFiles == InitFiles /\ [][NextCache]_vars

SpecNames == InitNames /\ [][Next]_vars

\* Icon directories a menu may declare, and the longest list of them.
IconDirs == {<<"/p">>, <<"/q">>, <<"/e">>}
MaxDirs == 2

\* The lists of at most n distinct icon directories.
DirLists(n) ==
    {s \in UNION {[1..k -> IconDirs] : k \in 0..n} :
        \A i, j \in 1..Len(s) : i # j => s[i] # s[j]}

DirNodes(dirs) == [i \in 1..Len(dirs) |-> Leaf("icon-dir", <<StrArg(dirs[i])>>)]

App == <<"app">>

\* Three levels of menus, each declaring its own icon directories; every item
\* refers to the icon "app".
IconDoc(r, m, n) ==
    DirNodes(r)
    \o << MenuNode(<<"M">>, Some(App), <<>>,
                   DirNodes(m)
                   \o << ProgramNode(<<"P">>, Some(App), <<<<"c1">>>>),
                         MenuNode(<<"N">>, Some(App), <<>>,
                                  DirNodes(n)
                                  \o <<ProgramNode(<<"P">>, Some(App), <<<<"c1">>>>)>>) >>),
          ProgramNode(<<"P">>, Some(App), <<<<"c1">>>>) >>

IconDocs == {IconDoc(r, m, n) : r, m, n \in DirLists(MaxDirs)}

InitIcons ==
    /\ text \in IconDocs
    /\ preset = <<"default">>
    /\ sha = [t \in {text} |-> 0]
    /\ cacheDir = FALSE
    /\ cacheFile = None
    /\ cacheSrc = None
    /\ files = NoFiles
    /\ call = NoCall
    /\ prev = NoPrev
    /\ drv = [status |-> "idle", cur |-> NoItem, sel |-> <<>>]

\* The build on documents that differ in the icon directories of three levels.
SpecIcons == InitIcons /\ [][Main]_vars

\* Selector arguments a menu may declare, and the longest list of them.
SelectorArgs == {<<"--a">>, <<"--b">>}
MaxArgs == 2

\* The lists of at most n distinct selector arguments.
ArgLists(n) ==
    {a \in UNION {[1..k -> SelectorArgs] : k \in 0..n} :
        \A i, j \in 1..Len(a) : i # j => a[i] # a[j]}

ArgNodes(args) ==
    IF args = <<>> THEN <<>>
    ELSE <<Leaf("fuzzel-args", [i \in 1..Len(args) |-> StrArg(args[i])])>>

\* What one menu declares for the selector: its arguments and its overrides.
Decors == [args : ArgLists(MaxArgs), config : {<<>>, <<Width>>}]

\* Three levels of menus, each with its own arguments and overrides.
ArgsDoc(r, m, n) ==
    ArgNodes(r.args) \o ConfigNodes(r.config)
    \o << ProgramNode(<<"P">>, None, <<<<"c1">>>>),
          MenuNode(<<"M">>, None, m.config,
                   ArgNodes(m.args)
                   \o << MenuNode(<<"N">>, None, n.config,
                                  ArgNodes(n.args)
                                  \o <<ProgramNode(<<"P">>, None, <<<<"c1">>>>)>>) >>) >>

ArgsDocs == {ArgsDoc(r, m, n) : r, m, n \in Decors}

InitArgs ==
    /\ text \in ArgsDocs
    /\ preset \in Presets
    /\ sha = [t \in {text} |-> 0]
    /\ cacheDir = FALSE
    /\ cacheFile = None
    /\ cacheSrc = None
    /\ files = NoFiles
    /\ call = NoCall
    /\ prev = NoPrev
    /\ drv = [status |-> "idle", cur |-> NoItem, sel |-> <<>>]

\* The build on documents that differ in the arguments and overrides of three levels.
SpecArgs == InitArgs /\ [][Main]_vars

\* Largest number of nodes at the root of the documents the parser is tried on.
MaxParseNodes == 2

\* Nodes that are allowed at some level only, or at none.
OddNodes ==
    {Leaf("icon", <<StrArg(App)>>),
     Leaf("bogus", <<StrArg(App)>>),
     Leaf("command", <<StrArg(<<"c1">>)>>),
     Leaf("fuzzel-args", <<StrArg(<<"--a">>)>>),
     Leaf("icon-dir", <<StrArg(<<"/p">>)>>)}

\* The lists of at most n nodes of a set.
NodeLists(nodes, n) == UNION {[1..k -> nodes] : k \in 0..n}

\* A program and a menu, each with at most one of the odd nodes among its children.
OddPrograms ==
    {Block("program", <<StrArg(<<"A">>)>>, odd \o <<Leaf("command", <<StrArg(<<"c1">>)>>)>>) :
        odd \in NodeLists(OddNodes, 1)}
OddMenus ==
    {Block("menu", <<StrArg(<<"A">>)>>, odd \o <<ProgramNode(<<"A">>, None, <<<<"c1">>>>)>>) :
        odd \in NodeLists(OddNodes, 1)}

ParseDocs == NodeLists(OddNodes \cup OddPrograms \cup OddMenus, MaxParseNodes)

InitParse ==
    /\ text \in ParseDocs
    /\ preset = <<"default">>
    /\ sha = [t \in {text} |-> 0]
    /\ cacheDir = FALSE
    /\ cacheFile = None
    /\ cacheSrc = None
    /\ files = NoFiles
    /\ call = NoCall
    /\ prev = NoPrev
    /\ drv = [status |-> "idle", cur |-> NoItem, sel |-> <<>>]

\* The parser on documents with nodes in and out of place.
SpecParse == InitParse /\ [][Main]_vars

----------------------------------------------------------------------------
(* Reading the trees: paths are sequences of 1-based item positions *)

\* The last call compiled (it was no cache hit) and returned a config.
Compiled == call.result = "ok" /\ call.compiled.ok
SourceMenu == call.compiled.val.menu
Resolved == call.compiled.val.resolved
Writes == call.compiled.val.writes
Config == call.ret.val

RECURSIVE PreOrder(_, _)
\* The paths of the menus of a tree (source or resolved), parents first, children
\* in declaration order.
PreOrder(menu, path) ==
    <<path>> \o Flat([i \in 1..Len(menu.items) |->
                        IF menu.items[i].kind = "Menu"
                        THEN PreOrder(menu.items[i].menu, Append(path, i))
                        ELSE <<>>])

\* The items of a parsed Menu, in the shape of resolved items.
RECURSIVE Shape(_)
Shape(menu) ==
    [fuzzel_config |-> menu.fuzzel_config,
     fuzzel_args |-> menu.fuzzel_args,
     icon_dirs |-> menu.icon_dirs,
     icons |-> [i \in 1..Len(menu.items) |-> menu.items[i].icon],
     items |-> [i \in 1..Len(menu.items) |->
                    IF menu.items[i].contents.kind = "Menu"
                    THEN [kind |-> "Menu", menu |-> Shape(menu.items[i].contents.menu)]
                    ELSE [kind |-> "Program", program |-> menu.items[i].contents.program]]]

RECURSIVE At(_, _)
\* The menu at a path of a tree.
At(menu, path) ==
    IF path = <<>> THEN menu ELSE At(menu.items[Head(path)].menu, Tail(path))

MenuPaths == PreOrder(Shape(SourceMenu), <<>>)
IndexOf(path) == CHOOSE i \in 1..Len(MenuPaths) : MenuPaths[i] = path
Last(s) == s[Len(s)]

RECURSIVE Menus(_)
\* Every menu of a resolved tree.
Menus(r) ==
    {r} \cup UNION {Menus(r.items[i].menu) : i \in {j \in 1..Len(r.items) : r.items[j].kind = "Menu"}}

----------------------------------------------------------------------------
(* C1 *)

RECURSIVE ChildrenAtOffset(_, _, _)
\* Computed menu m is resolved menu r flattened: with k the number of lines of
\* m.input, items[items_offset .. items_offset + k) exist and are r's children in
\* order, each submenu among them again flattened in this sense.
ChildrenAtOffset(r, m, items) ==
    LET k == Lines(m.input)
    IN  /\ m.args = r.args
        /\ m.input = r.input
        /\ k = Len(r.items)
        /\ m.items_offset + k <= Len(items)
        /\ \A j \in 1..k :
            LET item == items[m.items_offset + j]
            IN  IF r.items[j].kind = "Program"
                THEN item = [kind |-> "Program", program |-> r.items[j].program]
                ELSE item.kind = "Menu" /\ ChildrenAtOffset(r.items[j].menu, item.menu, items)

OneLinePerItem(r) == \A m \in Menus(r) : Lines(m.input) = Len(m.items)

\* C1: when every resolved menu's input has one newline-terminated line per item,
\* every computed menu (initial_menu and each Menu of items, at any depth) finds
\* exactly its direct children, in declaration order, at
\* items[items_offset .. items_offset + k), k its number of input lines; and items
\* holds nothing but these children.
C1_OffsetInvariant ==
    (Compiled /\ OneLinePerItem(Resolved)) =>
        /\ ChildrenAtOffset(Resolved, Config.initial_menu, Config.items)
        /\ Len(Config.items) = SeqSum([i \in 1..Len(MenuPaths) |->
                                          Len(At(Resolved, MenuPaths[i]).items)])

\* A compile whose root holds a submenu that is not its last item and that has
\* children of its own: the submenu's block lies behind its later siblings.
C1_Witness ==
    /\ Compiled /\ OneLinePerItem(Resolved)
    /\ \E j \in 1..Len(Resolved.items) :
        /\ j < Len(Resolved.items)
        /\ Resolved.items[j].kind = "Menu"
        /\ Resolved.items[j].menu.items # <<>>
        /\ Config.items[j].menu.items_offset = Len(Resolved.items)

----------------------------------------------------------------------------
(* C8 *)

\* C8: within one compile the menus get the ids 0, 1, 2, ... in pre-order of the
\* source tree (a menu before its descendants, children in declaration order), so
\* all ids are distinct; the id is the one the menu's --cache argument is made of.
C8_PreOrderIds ==
    Compiled =>
        \A i \in 1..Len(MenuPaths) :
            /\ At(Resolved, MenuPaths[i]).id = i - 1
            /\ Last(At(Resolved, MenuPaths[i]).args) = make_fuzzel_cache_path(i - 1, preset)

\* A compile of a tree where pre-order and level order differ: the root's first
\* submenu has a submenu, and the root has a second submenu after it.
C8_Witness ==
    /\ Compiled
    /\ \E i, j \in 1..Len(MenuPaths) :
        /\ Len(MenuPaths[i]) = 2
        /\ Len(MenuPaths[j]) = 1
        /\ At(Resolved, MenuPaths[i]).id = 2
        /\ At(Resolved, MenuPaths[j]).id = 3

----------------------------------------------------------------------------
(* C9 *)

\* C9: any two distinct menus of one compile have different --cache paths.
C9_DistinctCachePaths ==
    Compiled =>
        \A i, j \in 1..Len(MenuPaths) :
            i # j => Last(At(Resolved, MenuPaths[i]).args) # Last(At(Resolved, MenuPaths[j]).args)

----------------------------------------------------------------------------
(* C10 *)

\* The nearest proper ancestor of the menu at path that defines overrides.
NearestOverriding(path) ==
    LET anc == {n \in 0..(Len(path) - 1) :
                    At(Shape(SourceMenu), SubSeq(path, 1, n)).fuzzel_config # <<>>}
    IN  IF anc = {} THEN None
        ELSE Some(SubSeq(path, 1, CHOOSE n \in anc : \A k \in anc : k <= n))

ExpectedConfigBytes(path) ==
    LET pairs == At(Shape(SourceMenu), path).fuzzel_config
        up == NearestOverriding(path)
    IN  <<"include=">>
        \o (IF up.ok THEN make_fuzzel_config_path(IndexOf(up.val) - 1, preset)
            ELSE default_fuzzel_config_path)
        \o <<NL>>
        \o Flat([i \in 1..Len(pairs) |-> pairs[i][1] \o <<"=">> \o pairs[i][2] \o <<NL>>])

Overriding == {i \in 1..Len(MenuPaths) : At(Shape(SourceMenu), MenuPaths[i]).fuzzel_config # <<>>}

\* C10: a compile writes one synthetic config per menu that defines overrides and
\* no other; the file of such a menu starts with include=<the synthetic file of
\* the nearest ancestor that defines overrides, the default selector config when
\* there is none>, followed by a key=value line per override in declaration order.
C10_ConfigChain ==
    Compiled =>
        /\ Len(Writes) = Cardinality(Overriding)
        /\ \A i \in Overriding :
            \E w \in 1..Len(Writes) :
                /\ Writes[w].id = i - 1
                /\ Writes[w].path = make_fuzzel_config_path(i - 1, preset)
                /\ Writes[w].bytes = ExpectedConfigBytes(MenuPaths[i])

\* Three levels, overrides at the root and at the deepest menu only: the deepest
\* menu's file includes the root's.
C10_Witness ==
    /\ Compiled
    /\ \E i \in Overriding :
        /\ Len(MenuPaths[i]) = 2
        /\ At(Shape(SourceMenu), SubSeq(MenuPaths[i], 1, 1)).fuzzel_config = <<>>
        /\ SourceMenu.fuzzel_config # <<>>
        /\ \E w \in 1..Len(Writes) :
            /\ Writes[w].id = i - 1
            /\ SubSeq(Writes[w].bytes, 1, 1 + Len(make_fuzzel_config_path(0, preset)))
                  = <<"include=">> \o make_fuzzel_config_path(0, preset)

----------------------------------------------------------------------------
(* C2 *)

RECURSIVE Walk(_, _)
\* The item a tree holds at the end of a sequence of 0-based selections, None
\* when the tree has no item there.
Walk(menu, sel) ==
    IF sel = <<>> THEN Some([kind |-> "Menu", menu |-> menu])
    ELSE IF Head(sel) + 1 > Len(menu.items) THEN None
    ELSE IF Tail(sel) = <<>> THEN Some(menu.items[Head(sel) + 1])
    ELSE IF menu.items[Head(sel) + 1].kind # "Menu" THEN None
    ELSE Walk(menu.items[Head(sel) + 1].menu, Tail(sel))

\* C2: the driver's walk of the compiled structure agrees with the walk of the
\* source tree by the same selections: no lookup is out of bounds, the source has
\* an item at the path, a Menu reached carries the args and input of the source
\* submenu there, a Program reached carries the command declared there.
C2_WalkAgrees ==
    (Compiled /\ drv.status \in {"menu", "done", "panic"}) =>
        /\ drv.status # "panic"
        /\ Walk(Shape(SourceMenu), drv.sel).ok
        /\ LET src == Walk(Shape(SourceMenu), drv.sel).val
               res == Walk(Resolved, drv.sel).val
           IN  /\ drv.cur.kind = src.kind
               /\ drv.cur.kind = "Program" => drv.cur.program.command = src.program.command
               /\ drv.cur.kind = "Menu" =>
                    /\ drv.cur.menu.args = res.menu.args
                    /\ drv.cur.menu.input = res.menu.input

----------------------------------------------------------------------------
(* C3 *)

\* The computed menus of a config: 0 stands for initial_menu, i for items[i - 1].
ComputedMenus(c) == {0} \cup {i \in 1..Len(c.items) : c.items[i].kind = "Menu"}
ComputedMenu(c, i) == IF i = 0 THEN c.initial_menu ELSE c.items[i].menu
Block_(m) == m.items_offset .. (m.items_offset + Lines(m.input) - 1)

\* C3: the children blocks [items_offset, items_offset + k) of two distinct menus
\* of a compiled config never share an index.
C3_BlocksDisjoint ==
    Compiled =>
        \A a, b \in ComputedMenus(Config) :
            a # b => Block_(ComputedMenu(Config, a)) \cap Block_(ComputedMenu(Config, b)) = {}

----------------------------------------------------------------------------
(* C4 *)

\* C4: every menu built has as many newline-terminated input lines as items.
C4_LineCount == Compiled => OneLinePerItem(Resolved)

----------------------------------------------------------------------------
(* C5 *)

\* What compiling a text from scratch returns.
Fresh(t) == compute_config(t, actual_hash(t), preset, MaxCreates)

\* C5: a call made while the source differs from the text behind the cache file
\* is no cache hit, and what it returns is the fresh compile of the source.
C5_StaleNeverHits ==
    (call.result # "none" /\ call.stale) =>
        /\ call.outcome # "hit"
        /\ call.result = "ok" => (Fresh(call.text).ok /\ call.ret = Ok(Fresh(call.text).val.config))

----------------------------------------------------------------------------
(* C6 *)

\* C6: a call that follows a call on the same text that wrote the cache file
\* returns what that call returned; and the cache file a call wrote decodes to
\* what the call returned.
C6_CacheRoundTrip ==
    /\ (prev.wrote /\ call.text = prev.text) => (call.result = "ok" /\ call.ret = prev.ret)
    /\ call.wrote => read_cached_config(cacheFile) = call.ret

\* The second call was served from the cache file the first one wrote, and the
\* config holds a submenu (its offset is not 0).
C6_Witness ==
    /\ prev.wrote /\ call.text = prev.text /\ call.outcome = "hit"
    /\ \E i \in 1..Len(call.ret.val.items) :
        /\ call.ret.val.items[i].kind = "Menu"
        /\ call.ret.val.items[i].menu.items_offset > 0

----------------------------------------------------------------------------
(* C7 *)

\* C7: a call that is no cache hit (the cache file is missing, does not decode or
\* holds another hash) on a text that parses and whose build completes returns
\* the fresh compile of the text, whether or not the cache directory could be
\* made and whether or not the cache file could be written.
C7_CacheFailuresNotFatal ==
    (call.outcome \in {"missing", "undecodable", "stale"}
        /\ parse_config(call.text).ok /\ call.result # "panic") =>
        /\ call.result = "ok"
        /\ call.ret = Ok(Fresh(call.text).val.config)

\* A call that found a cache file with another hash, compiled, and could not
\* write the cache file.
C7_Witness ==
    /\ call.outcome = "stale"
    /\ call.write = "fail"
    /\ call.result = "ok"

----------------------------------------------------------------------------
(* C11 *)

RECURSIVE SplitLines(_, _)
\* The newline-terminated lines of a buffer, without their newline.
SplitLines(buf, line) ==
    IF buf = <<>> THEN <<>>
    ELSE IF Head(buf) = NL THEN <<line>> \o SplitLines(Tail(buf), <<>>)
    ELSE SplitLines(Tail(buf), Append(line, Head(buf)))

\* The directory under which the icon path of a line lies: the path is what
\* follows the unit separator, and it starts with the directory searched.
IconDirOf(line) ==
    LET u == CHOOSE i \in 1..Len(line) : line[i] = US
    IN  <<line[u + 1]>>

\* The directory of the icon on line j of the resolved menu at a path.
LineDir(path, j) == IconDirOf(SplitLines(At(Resolved, path).input, <<>>)[j])

\* An icon file named "app" lies under the directory.
Holds(dir) == \E i \in 1..Len(WalkDir(dir)) :
                  WalkDir(dir)[i].stem = App /\ WalkDir(dir)[i].ext \in {"png", "svg"}

HoldsAny(dirs) == \E i \in 1..Len(dirs) : Holds(dirs[i])

\* The icon directories declared by the menu at a path.
DirsAt(path) == At(Shape(SourceMenu), path).icon_dirs

\* The groups of directories in the order the claim gives them: the menu's own,
\* its ancestors' from the nearest to the root, the defaults.
Groups(path) ==
    [g \in 1..(Len(path) + 1) |-> DirsAt(SubSeq(path, 1, Len(path) + 1 - g))]
    \o <<DefaultIconDirs>>

\* The icon directories of the submenu that item j of the menu at path opens.
SubDirs(path, j) ==
    IF At(Shape(SourceMenu), path).items[j].kind = "Menu"
    THEN DirsAt(Append(path, j)) ELSE <<>>

\* C11: the icon of an item is found in the first group of directories that holds
\* it, the groups being the directories of the item's menu, then those of each
\* ancestor from the nearest to the farthest, then the defaults (for an item whose
\* own submenu directories do not hold the icon).
C11_NearestAncestorFirst ==
    Compiled =>
        \A p \in 1..Len(MenuPaths) :
            LET path == MenuPaths[p]
                groups == Groups(path)
            IN  \A j \in 1..Len(At(Shape(SourceMenu), path).items) :
                    ~HoldsAny(SubDirs(path, j)) =>
                        \A g \in 1..Len(groups) :
                            (HoldsAny(groups[g]) /\ \A h \in 1..(g - 1) : ~HoldsAny(groups[h]))
                                => \E d \in 1..Len(groups[g]) :
                                      /\ Holds(groups[g][d])
                                      /\ LineDir(path, j) = groups[g][d]

\* The innermost menu declares no directory that holds the icon, its parent
\* declares /q and the root /p: the program's icon comes from the parent's /q.
C11_Witness ==
    /\ Compiled
    /\ ~HoldsAny(DirsAt(<<1, 2>>))
    /\ DirsAt(<<1>>) = << <<"/q">> >>
    /\ DirsAt(<<>>) = << <<"/p">> >>
    /\ LineDir(<<1, 2>>, 1) = <<"/q">>

----------------------------------------------------------------------------
(* C12 *)

\* C12, as stated: the source with the single item program "Open" compiles to an
\* empty items array, initial_menu.input = "Open\n" and items_offset = 0.
C12_OpenScenario ==
    (Compiled /\ text = TextOpen) =>
        /\ Config.items = <<>>
        /\ Config.initial_menu.input = <<"Open", NL>>
        /\ Config.initial_menu.items_offset = 0

\* C12, amended: the source with the single item program "Open" compiles to an
\* items array that holds exactly that program with its command,
\* initial_menu.input = "Open\n" and items_offset = 0.
C12_OpenScenarioAmended ==
    (Compiled /\ text = TextOpen) =>
        /\ Config.items =
              <<[kind |-> "Program",
                 program |-> [command |-> << <<"xdg-open">>, <<"file", ".", "txt">> >>]]>>
        /\ Config.initial_menu.input = <<"Open", NL>>
        /\ Config.initial_menu.items_offset = 0

\* The scenario's source was compiled.
C12_Witness == Compiled /\ text = TextOpen /\ Len(Config.items) = 1

----------------------------------------------------------------------------
(* C13 *)

\* The node names the grammar allows: at the document root, among the children
\* of a menu item, among the children of a program item.
AllowedNames(level) ==
    CASE level = "root" -> {"fuzzel-args", "fuzzel-config", "icon-dir", "menu", "program"}
      [] level = "menu" -> {"fuzzel-args", "fuzzel-config", "icon-dir", "menu", "program", "icon"}
      [] level = "program" -> {"command", "icon"}

RECURSIVE Misplaced(_, _)
\* Some node of the list, or of an item below it, has a name its level does not allow.
Misplaced(nodes, level) ==
    \E i \in 1..Len(nodes) :
        \/ nodes[i].name \notin AllowedNames(level)
        \/ /\ nodes[i].name \in {"menu", "program"}
           /\ nodes[i].name \in AllowedNames(level)
           /\ Misplaced(nodes[i].children, nodes[i].name)

\* C13: a source in which some node's name is not one its level allows (an icon
\* node at the document root included) makes the call fail with no config.
C13_MisplacedRejected ==
    (call.result # "none" /\ Misplaced(call.text, "root")) =>
        (call.result = "err" /\ ~call.ret.ok)

----------------------------------------------------------------------------
(* C14 *)

\* The number of menus of a text that define overrides: the number of synthetic
\* config files its compile has to create.
ConfigsOf(t) ==
    LET tree == Shape(parse_config(t).val)
        paths == PreOrder(tree, <<>>)
    IN  Cardinality({i \in 1..Len(paths) : At(tree, paths[i]).fuzzel_config # <<>>})

\* The compile of call c fails: its text has a grammar error, or the file system
\* lets fewer synthetic config files be created than the text needs.
CompileFails(c) ==
    /\ c.result # "none"
    /\ c.outcome # "hit"
    /\ \/ ~parse_config(c.text).ok
       \/ c.creatable < ConfigsOf(c.text)

\* C14: a call whose compile fails (a grammar error, or a synthetic config file
\* that cannot be written) ends without a ComputedConfig, nothing flattened, and
\* leaves the cache file as it was before the call.
C14_FailedCompile ==
    [][CompileFails(call') =>
           /\ call'.result \in {"err", "panic"}
           /\ ~call'.ret.ok
           /\ ~call'.compiled.ok
           /\ cacheFile' = cacheFile]_vars

\* A compile that wrote its first synthetic config and could not create the
\* second, with the cache file of an earlier compile on disk.
C14_Witness ==
    /\ call.result = "panic"
    /\ call.creatable = 1
    /\ call.text = TextB
    /\ cacheFile.ok

----------------------------------------------------------------------------
(* C15 *)

\* The (--config, path) pair the claim gives the i-th menu in pre-order: its own
\* synthetic file when it defines overrides, else the file of the nearest
\* ancestor that does, else nothing.
ExpectedConfigPair(i) ==
    LET path == MenuPaths[i]
        up == NearestOverriding(path)
    IN  IF At(Shape(SourceMenu), path).fuzzel_config # <<>>
        THEN << <<"--config">>, make_fuzzel_config_path(i - 1, preset) >>
        ELSE IF up.ok
        THEN << <<"--config">>, make_fuzzel_config_path(IndexOf(up.val) - 1, preset) >>
        ELSE <<>>

\* C15: the arguments of every resolved menu are its own fuzzel-args, then the
\* (--config, path) pair (own file if it defines overrides, else the nearest
\* overriding ancestor's, else absent), then the (--cache, path) pair of its id;
\* and a menu's own file is one this compile wrote.
C15_ArgumentOrder ==
    Compiled =>
        \A i \in 1..Len(MenuPaths) :
            /\ At(Resolved, MenuPaths[i]).args
                  = At(Shape(SourceMenu), MenuPaths[i]).fuzzel_args
                    \o ExpectedConfigPair(i)
                    \o << <<"--cache">>, make_fuzzel_cache_path(i - 1, preset) >>
            /\ At(Shape(SourceMenu), MenuPaths[i]).fuzzel_config # <<>> =>
                  \E w \in 1..Len(Writes) :
                      Writes[w].path = make_fuzzel_config_path(i - 1, preset)

\* The middle menu passes two arguments and defines no overrides, the root
\* does: its arguments are its own two, the root's file, its cache path.
C15_Witness ==
    /\ Compiled
    /\ SourceMenu.fuzzel_config # <<>>
    /\ At(Shape(SourceMenu), <<2>>).fuzzel_config = <<>>
    /\ At(Shape(SourceMenu), <<2>>).fuzzel_args = << <<"--b">>, <<"--a">> >>
    /\ Len(At(Resolved, <<2>>).args) = 6
    /\ At(Resolved, <<2>>).args[4] = make_fuzzel_config_path(0, preset)

----------------------------------------------------------------------------
(* C16 *)

\* The cache file decodes and its stored hash is the hash of the source text.
CacheHit ==
    /\ cacheFile.ok
    /\ decode(cacheFile.val).ok
    /\ decode(cacheFile.val).val.hash = sha[text]

\* C16: a call made when the cache file decodes and its hash is the source's
\* returns the decoded value and compiles nothing, and it leaves the cache
\* directory, the cache file and the synthetic config files as they were.
C16_HitChangesNothing ==
    [][(text' = text /\ CacheHit) =>
           /\ call'.outcome = "hit"
           /\ call'.result = "ok"
           /\ call'.ret = Ok(decode(cacheFile.val).val)
           /\ ~call'.compiled.ok
           /\ cacheFile' = cacheFile
           /\ cacheDir' = cacheDir
           /\ files' = files]_vars

\* A hit on the text with two synthetic config files, served from the cache
\* file the call before wrote.
C16_Witness ==
    /\ call.outcome = "hit"
    /\ call.text = TextB
    /\ prev.wrote
    /\ DOMAIN files # {}

----------------------------------------------------------------------------
(* C17 *)

\* The first group of directories of the menu at a path that holds the icon.
FirstHolding(path) ==
    LET groups == Groups(path)
        g == CHOOSE k \in 1..Len(groups) :
                HoldsAny(groups[k]) /\ \A h \in 1..(k - 1) : ~HoldsAny(groups[h])
    IN  groups[g]

InList(d, dirs) == \E i \in 1..Len(dirs) : dirs[i] = d

\* C17: the icon of an item that opens a submenu is found under one of the
\* submenu's own directories whenever one of them holds it, whatever the
\* containing menu, its ancestors and the defaults hold; the icons of the
\* program items beside it are found as if the submenu declared nothing.
C17_SubmenuDirsFirst ==
    Compiled =>
        \A p \in 1..Len(MenuPaths) :
            LET path == MenuPaths[p]
                items == At(Shape(SourceMenu), path).items
            IN  \A j \in 1..Len(items) :
                    IF items[j].kind = "Menu"
                    THEN HoldsAny(SubDirs(path, j)) =>
                            /\ InList(LineDir(path, j), SubDirs(path, j))
                            /\ Holds(LineDir(path, j))
                    ELSE InList(LineDir(path, j), FirstHolding(path))

\* The root declares /p and its submenu /q: the submenu's item shows the icon
\* of /q, the program beside it the icon of /p.
C17_Witness ==
    /\ Compiled
    /\ DirsAt(<<>>) = << <<"/p">> >>
    /\ DirsAt(<<1>>) = << <<"/q">> >>
    /\ LineDir(<<>>, 1) = <<"/q">>
    /\ LineDir(<<>>, 2) = <<"/p">>

----------------------------------------------------------------------------
(* C18 *)

\* The first directory of a list, in the order of the list, that holds the icon.
FirstHoldingDir(dirs) ==
    dirs[CHOOSE i \in 1..Len(dirs) : Holds(dirs[i]) /\ \A h \in 1..(i - 1) : ~Holds(dirs[h])]

\* C18: the directories one menu declares are searched in the order of their
\* declaration: the icon of an item comes from the first declared directory
\* that holds it, among the directories of the submenu the item opens when one
\* of these holds it, else among those of the first menu up the chain (the
\* item's menu, its ancestors, the defaults) that has one holding it.
C18_DeclarationOrder ==
    Compiled =>
        \A p \in 1..Len(MenuPaths) :
            LET path == MenuPaths[p]
            IN  \A j \in 1..Len(At(Shape(SourceMenu), path).items) :
                    LineDir(path, j) =
                        FirstHoldingDir(IF HoldsAny(SubDirs(path, j))
                                        THEN SubDirs(path, j)
                                        ELSE FirstHolding(path))

----------------------------------------------------------------------------
(* C19 *)

RECURSIVE Depth(_)
\* The nesting depth of a tree: 1 for a menu without submenus.
Depth(menu) ==
    LET subs == {i \in 1..Len(menu.items) : menu.items[i].kind = "Menu"}
        depths == {Depth(menu.items[i].menu) : i \in subs}
    IN  IF subs = {} THEN 1 ELSE 1 + CHOOSE d \in depths : \A e \in depths : e <= d

RECURSIVE Visited(_, _, _)
\* The indexes of items the driver loop looks up for a sequence of selections,
\* starting at a menu.
Visited(items, menu, sel) ==
    IF sel = <<>> THEN <<>>
    ELSE LET index == Head(sel) + menu.items_offset
         IN  <<index>>
             \o (IF index < Len(items) /\ items[index + 1].kind = "Menu"
                 THEN Visited(items, items[index + 1].menu, Tail(sel))
                 ELSE <<>>)

\* Every Menu stored at index i of items has items_offset > i.
OffsetsGrow(items) ==
    \A k \in 1..Len(items) : items[k].kind = "Menu" => items[k].menu.items_offset > k - 1

Increasing(s) == \A i \in 1..(Len(s) - 1) : s[i] < s[i + 1]

\* C19: a Menu stored at index i of items has items_offset > i (so no placeholder
\* 0 survives); the driver loop looks up strictly increasing indexes; and for
\* selections in range (each below the number of items of the menu shown) the
\* loop fails no lookup, is at a Program after at most as many selections as
\* the source nests menus, and is still at a menu only after fewer.
C19_WalkTerminates ==
    Compiled =>
        /\ OffsetsGrow(Config.items)
        /\ drv.status \in {"menu", "done", "panic"} =>
              /\ Increasing(Visited(Config.items, Config.initial_menu, drv.sel))
              /\ Walk(Shape(SourceMenu), drv.sel).ok =>
                    /\ drv.status # "panic"
                    /\ Len(drv.sel) <= Depth(Shape(SourceMenu))
                    /\ drv.status = "menu" => Len(drv.sel) < Depth(Shape(SourceMenu))

\* The longest walk of a source that nests three menus: three selections, the
\* last one at index 2, end at a Program.
C19_Witness ==
    /\ Compiled
    /\ Depth(Shape(SourceMenu)) = 3
    /\ drv.status = "done"
    /\ Visited(Config.items, Config.initial_menu, drv.sel) = <<0, 1, 2>>

----------------------------------------------------------------------------
(* C20 *)

\* The paths named by the --config arguments of a list of arguments.
ConfigPathsOf(args) ==
    {args[i + 1] : i \in {k \in 1..(Len(args) - 1) : args[k] = <<"--config">>}}

\* The paths named by the --config arguments of a ComputedConfig.
ConfigPaths(c) ==
    ConfigPathsOf(c.initial_menu.args)
    \cup UNION {ConfigPathsOf(c.items[i].menu.args) :
                    i \in {k \in 1..Len(c.items) : c.items[k].kind = "Menu"}}

\* The synthetic config files a compile of text t from scratch leaves on disk.
FreshFiles(t) == write_files(NoFiles, Fresh(t).val.writes, 1)

\* C20: whenever a call returns a ComputedConfig, every synthetic config file
\* that one of its --config arguments names is on disk, with the content the
\* compile of the current source text writes to that path.
C20_ConfigFilesCurrent ==
    (call.result = "ok" /\ call.text = text) =>
        \A path \in ConfigPaths(call.ret.val) :
            /\ path \in DOMAIN files
            /\ Fresh(text).ok
            /\ path \in DOMAIN FreshFiles(text)
            /\ files[path] = FreshFiles(text)[path]

====
